---- MODULE Spec2Model ----
(***************************************************************************)
(* A model of the orchestration layer of the PGC repository:               *)
(*   src/models/pgc_marg.py     PGCMargSort  (size-prior mixture)          *)
(*   src/models/molspn_zero.py  MolSPNZeroSort (plain mixture)             *)
(* Tensors are modelled by their integer contents: a node row is a         *)
(* function 0..n-1 -> Int, an edge matrix a function 0..n-1 -> (0..n-1 ->  *)
(* Int), a batch a sequence of rows or matrices.  The circuit engine       *)
(* (models.backend, einsum) is outside src/ and is modelled at its         *)
(* interface only.                                                         *)
(***************************************************************************)
EXTENDS Integers, Sequences, FiniteSets, TLC

\* ------------------------------------------------------------------ bounds
\* nd_x of the size-prior model and nd_nodes of the plain model
ND == 3
\* largest graph size the triangular codec is exercised on
MaxN == 3
\* largest label: node labels 1..MaxLabel (0 is padding), edge labels 0..MaxLabel
MaxLabel == 1
\* largest evidence batch / num_samples
MaxBatch == 2
\* number of public calls in one behaviour
MaxCalls == 2

VARIABLES
    codec,      \* the triangular codec's input, intermediate and output
    x,          \* the caller's node tensor (batch of label rows)
    a,          \* the caller's edge tensor (batch of matrices)
    logits_n,   \* PGCMargSort.logits_n: per category "init" or "ninf" (-inf)
    logits_w,   \* PGCMargSort.logits_w
    m,          \* PGCMargSort.m / MolSPNZeroSort.m
    network_x,  \* node engine: the marginalization mask in force and the call that set it
    network_a,  \* edge engine: likewise
    regime,     \* MolSPNZeroCore.regime
    ncalls,     \* number of public calls made so far
    ret,        \* what the last call returned (or that it raised)
    trace       \* the _sample entries and engine invocations of the last call

vars == <<codec, x, a, logits_n, logits_w, m, network_x, network_a, regime, ncalls, ret, trace>>

\* ---------------------------------------------------------- tensor helpers
Idx(n) == 0..(n - 1)

\* torch.tril(torch.ones(n, n, dtype=bool), diagonal=-1)
Tril(n) == [i \in Idx(n) |-> [j \in Idx(n) |-> j < i]]

\* the true positions of a boolean n x n mask in row-major order, which is the
\* order boolean-mask indexing t[:, msk] reads and writes
RECURSIVE MaskScan(_, _, _)
MaskScan(msk, n, k) ==
    IF k >= n * n THEN <<>>
    ELSE (IF msk[k \div n][k % n] THEN << <<k \div n, k % n>> >> ELSE <<>>)
         \o MaskScan(msk, n, k + 1)

MaskPos(msk, n) == MaskScan(msk, n, 0)

\* t[:, msk] for one example, pos being MaskPos(msk, n): the edge vector l
Flatten(t, pos) == [k \in 1..Len(pos) |-> t[pos[k][1]][pos[k][2]]]

\* torch.full / torch.zeros for one example
Full(n, pad) == [i \in Idx(n) |-> [j \in Idx(n) |-> pad]]

\* t[:, msk] = l for one example
MaskPut(t, pos, n, l) ==
    [i \in Idx(n) |-> [j \in Idx(n) |->
        IF \E k \in 1..Len(pos) : pos[k] = <<i, j>>
        THEN l[CHOOSE k \in 1..Len(pos) : pos[k] = <<i, j>>]
        ELSE t[i][j]]]

\* mutant: the mirror write lands on the mask positions again
MaskPutTNoMirror(t, pos, n, l) == MaskPut(t, pos, n, l)

\* t.transpose(1, 2)[:, msk] = l for one example: position (i,j) of the
\* transposed view is position (j,i) of t
MaskPutT(t, pos, n, l) ==
    [i \in Idx(n) |-> [j \in Idx(n) |->
        IF \E k \in 1..Len(pos) : pos[k] = <<j, i>>
        THEN l[CHOOSE k \in 1..Len(pos) : pos[k] = <<j, i>>]
        ELSE t[i][j]]]

\* a = full(pad); a[:, m] = l; a.transpose(1, 2)[:, m] = l
Unflatten(l, pos, pad, n) == MaskPutT(MaskPut(Full(n, pad), pos, n, l), pos, n, l)

Symmetric(t, n) == \A i \in Idx(n) : \A j \in Idx(n) : t[i][j] = t[j][i]

\* ------------------------------------------------------ the codec on its own
Labels == 0..MaxLabel

\* every symmetric n x n matrix over Labels, the diagonal included: one value
\* per unordered pair of positions
SymMatrices(n) ==
    LET pairs == {p \in Idx(n) \X Idx(n) : p[2] <= p[1]}
    IN  {[i \in Idx(n) |-> [j \in Idx(n) |-> IF j <= i THEN f[<<i, j>>] ELSE f[<<j, i>>]]] :
            f \in [pairs -> Labels]}

\* the concrete scenario of the specification, N = 4
ExampleA ==
    LET rows == << <<0, 1, 2, 3>>, <<1, 0, 4, 5>>, <<2, 4, 0, 6>>, <<3, 5, 6, 0>> >>
    IN  [i \in Idx(4) |-> [j \in Idx(4) |-> rows[i + 1][j + 1]]]

CodecIdle == [stage |-> "idle"]

\* an engine on which set_marginalization_mask has not been called yet
NoMask == [by |-> 0, mask |-> <<>>]

InitCodec ==
    /\ \/ \E n \in 1..MaxN : \E t \in SymMatrices(n) : \E pad \in Labels :
            codec = [stage |-> "input", n |-> n, a |-> t, pad |-> pad]
       \/ codec = [stage |-> "input", n |-> 4, a |-> ExampleA, pad |-> 0]
    /\ x = <<>> /\ a = <<>>
    /\ logits_n = <<>> /\ logits_w = "init"
    /\ m = Tril(codec.n)
    /\ network_x = NoMask /\ network_a = NoMask
    /\ regime = "cat" /\ ncalls = 0 /\ ret = [kind |-> "none"] /\ trace = <<>>

CodecFlatten ==
    /\ codec.stage = "input"
    /\ codec' = [codec EXCEPT !.stage = "flat"] @@ [l |-> Flatten(codec.a, MaskPos(m, codec.n))]
    /\ UNCHANGED <<x, a, logits_n, logits_w, m, network_x, network_a, regime, ncalls, ret, trace>>

CodecUnflatten ==
    /\ codec.stage = "flat"
    /\ codec' = [codec EXCEPT !.stage = "done"]
                    @@ [out |-> Unflatten(codec.l, MaskPos(m, codec.n), codec.pad, codec.n)]
    /\ UNCHANGED <<x, a, logits_n, logits_w, m, network_x, network_a, regime, ncalls, ret, trace>>

NextCodec == CodecFlatten \/ CodecUnflatten

SpecCodec == InitCodec /\ [][NextCodec]_vars

\* ------------------------------------------------- PGCMargSort: the engine
\* The circuit engine's sample(count, class_idxs, x=evidence) for one example,
\* in the engine's encoding: an observed position (value > -1) is copied
\* through, every other position holds a value the engine draws (here `fill`).
EngineSample(has, ev, dom, fill) ==
    [j \in dom |-> IF has /\ ev[j] > -1 THEN ev[j] ELSE fill]

\* ------------------------------------------------ PGCMargSort.forward/logpdf
\* x -= 1 (in place: the rows are the caller's tensor)
Shift(rows) == [r \in DOMAIN rows |-> [j \in DOMAIN rows[r] |-> rows[r][j] - 1]]

\* (t > -1) for one row
Present(row) == [j \in DOMAIN row |-> row[j] > -1]

\* (mask_xn.unsqueeze(2) * mask_xn.unsqueeze(1))[:, self.m] for one example
EdgeMaskOf(mask_xn, pos) ==
    Flatten([i \in Idx(ND) |-> [j \in Idx(ND) |-> mask_xn[i] /\ mask_xn[j]]], pos)

\* mask_xn.sum(dim=1) - 1 for one row
CountMinusOne(mask_xn) == Cardinality({j \in DOMAIN mask_xn : mask_xn[j]}) - 1

\* forward(x, a) on the state st = [x, logits_n, network_x, network_a, trace];
\* cid is the number of the public call
Forward(st, edges, msk, cid) ==
    LET xs      == Shift(st.x)
        pos     == MaskPos(msk, ND)
        mask_xn == [r \in DOMAIN xs |-> Present(xs[r])]
        mask_an == [r \in DOMAIN xs |-> EdgeMaskOf(mask_xn[r], pos)]
        n       == [r \in DOMAIN xs |-> CountMinusOne(mask_xn[r])]
        nx      == [by |-> cid, mask |-> mask_xn]
        na      == [by |-> cid, mask |-> mask_an]
        \* dist_n.log_prob(n) validates n against the support 0..nd_x-1
        bad     == \E r \in DOMAIN xs : n[r] \notin Idx(ND)
        scores  == << [op |-> "score", net |-> "x", by |-> nx.by],
                      [op |-> "score", net |-> "a", by |-> na.by] >>
    IN  [raised  |-> bad,
         st      |-> [st EXCEPT !.x = xs, !.network_x = nx, !.network_a = na,
                                !.trace = IF bad THEN @ ELSE @ \o scores],
         mask_xn |-> mask_xn, mask_an |-> mask_an, n |-> n]

\* ------------------------------------------------------ PGCMargSort._sample
None == [some |-> FALSE, lo |-> 1, hi |-> 0]
Rows(lo, hi) == [some |-> TRUE, lo |-> lo, hi |-> hi]
LenOf(c) == c.hi - c.lo + 1

\* mutant: the length check is skipped and the node batch decides
LengthsAgreeAlways(lenx, lena) == TRUE

\* len(cond_x) == len(cond_a); when it fails the code raises a str, which
\* Python 3 turns into a TypeError: the call ends in a raised error either way
LengthsAgree(lenx, lena) == lenx = lena

\* self.logits_n.unsqueeze(0).expand(num_samples, -1).masked_fill_(mask_x, -inf):
\* the expanded view has stride 0 along the batch, so every row of the view is
\* the parameter's own storage and a write in any row lands in logits_n
MaskedFill(logits, mask_x) ==
    [j \in DOMAIN logits |->
        IF \E r \in DOMAIN mask_x : mask_x[r][j] THEN "ninf" ELSE logits[j]]

\* the categories torch.distributions.Categorical(logits=logs_n) can draw
Support(logs_n) == {j \in DOMAIN logs_n : logs_n[j] # "ninf"}

\* _sample(num_samples, cond_x, cond_a): cx and ca say which rows of the caller's
\* x and a were passed (None: the argument was not given); samp is the draw of
\* samp_n per example, w what the engines draw for the unobserved positions
\* (the edge engine the label w, the node engine the category w % MaxLabel)
SampleCore(st, edges, msk, num_samples, cx, ca, samp, w, cid) ==
    LET both == cx.some /\ ca.some
        pos  == MaskPos(msk, ND)
        ex   == w % MaxLabel
        ea   == w
    IN
    IF both /\ ~LengthsAgree(LenOf(cx), LenOf(ca))
    THEN [raised |-> TRUE, ok |-> TRUE, st |-> st, xs |-> <<>>, as |-> <<>>]
    ELSE
    LET ns      == IF both THEN LenOf(cx) ELSE num_samples
        B       == 1..ns
        entry   == [op |-> "_sample", n |-> ns, cond_x |-> cx.some, cond_a |-> ca.some]
        \* lines 64-74
        xdec    == IF cx.some
                   THEN [i \in DOMAIN st.x |->
                            IF i \in cx.lo..cx.hi
                            THEN [j \in DOMAIN st.x[i] |-> st.x[i][j] - 1]
                            ELSE st.x[i]]
                   ELSE st.x
        cond_x  == [r \in B |-> IF cx.some THEN xdec[cx.lo + r - 1]
                                ELSE [j \in Idx(ND) |-> -1]]
        mask_x  == [r \in B |-> IF cx.some THEN Present(cond_x[r])
                                ELSE [j \in Idx(ND) |-> FALSE]]
        ln      == IF cx.some THEN MaskedFill(st.logits_n, mask_x) ELSE st.logits_n
        nx      == IF cx.some THEN [by |-> cid, mask |-> mask_x] ELSE st.network_x
        ev1     == IF cx.some THEN << [op |-> "score", net |-> "x", by |-> nx.by] >>
                   ELSE <<>>
        \* lines 76-85
        Ba      == 1..(IF ca.some THEN LenOf(ca) ELSE ns)
        cond_a  == [r \in Ba |-> IF ca.some THEN Flatten(edges[ca.lo + r - 1], pos)
                                ELSE [k \in 1..Len(pos) |-> -1]]
        mask_a  == [r \in Ba |-> [k \in DOMAIN cond_a[r] |-> ca.some /\ cond_a[r][k] > -1]]
        na      == IF ca.some THEN [by |-> cid, mask |-> mask_a] ELSE st.network_a
        ev2     == IF ca.some THEN << [op |-> "score", net |-> "a", by |-> na.by] >>
                   ELSE <<>>
        \* line 87: logs_x + logs_a needs batches that broadcast
        shapes  == both /\ LenOf(cx) # LenOf(ca)
        \* line 89: all logits -inf leaves nothing to draw and the draw fails
        empty   == shapes \/ (ns > 0 /\ Support(ln) = {})
        ev2b    == IF shapes THEN <<>> ELSE << [op |-> "draw_n", support |-> Support(ln)] >>
        \* lines 92-95
        mask_xn == [r \in B |-> [j \in Idx(ND) |-> j <= samp[r]]]
        mask_an == [r \in B |-> EdgeMaskOf(mask_xn[r], pos)]
        mask_xx == [r \in B |-> [j \in Idx(ND) |-> mask_x[r][j] \/ mask_xn[r][j]]]
        mask_aa == [r \in B |-> [k \in DOMAIN mask_a[r] |-> mask_a[r][k] \/ mask_an[r][k]]]
        \* lines 97-98
        xe      == [r \in B |-> EngineSample(cx.some, cond_x[r], Idx(ND), ex)]
        le      == [r \in B |-> EngineSample(ca.some, cond_a[r], DOMAIN cond_a[r], ea)]
        ev3     == << [op |-> "sample", net |-> "x", by |-> nx.by],
                      [op |-> "sample", net |-> "a", by |-> na.by] >>
        \* lines 100-107
        xo      == [r \in B |-> [j \in Idx(ND) |-> (IF mask_xx[r][j] THEN xe[r][j] ELSE -1) + 1]]
        lo      == [r \in B |-> [k \in DOMAIN le[r] |-> IF mask_aa[r][k] THEN le[r][k] ELSE 0]]
        ao      == [r \in B |-> Unflatten(lo[r], pos, 0, ND)]
        st1     == [st EXCEPT !.x = xdec, !.logits_n = ln, !.network_x = nx,
                              !.network_a = na]
    IN  IF empty
        THEN [raised |-> TRUE, ok |-> TRUE,
              st |-> [st1 EXCEPT !.trace = @ \o <<entry>> \o ev1 \o ev2 \o ev2b],
              xs |-> <<>>, as |-> <<>>]
        ELSE [raised |-> FALSE,
              ok |-> \A r \in B : samp[r] \in Support(ln),
              st |-> [st1 EXCEPT !.trace = @ \o <<entry>> \o ev1 \o ev2 \o ev2b \o ev3],
              xs |-> xo, as |-> ao]

\* ------------------------------------------------------- PGCMargSort.sample
Min(p, q) == IF p < q THEN p ELSE q

\* t.chunk(chunks) on a batch of len rows: torch.chunk takes the NUMBER of
\* chunks, each of ceil(len / chunks) rows but a shorter last one; the result
\* is the row ranges, each a view of t
TorchChunk(len, chunks) ==
    LET size == (len + chunks - 1) \div chunks
        k    == (len + size - 1) \div size
    IN  [i \in 1..k |-> Rows((i - 1) * size + 1, Min(i * size, len))]

\* num_samples // chunk_size*[chunk_size] + ([num_samples % chunk_size] if ... else [])
SizeChunks(num_samples, chunk_size) ==
    [i \in 1..(num_samples \div chunk_size) |-> chunk_size]
    \o (IF num_samples % chunk_size > 0 THEN <<num_samples % chunk_size>> ELSE <<>>)

\* the rows of samp that belong to a chunk starting after `off` examples
Slice(samp, off, n) == [r \in 1..n |-> samp[off + r]]

\* the for loops of sample: one _sample per job, in order; a raise ends the loop
RECURSIVE RunChunks(_, _, _, _, _, _, _, _, _)
RunChunks(acc, jobs, k, off, edges, msk, samp, w, cid) ==
    IF k > Len(jobs) THEN acc
    ELSE LET j == jobs[k]
             n == IF j.cx.some THEN LenOf(j.cx) ELSE j.n
             r == SampleCore(acc.st, edges, msk, j.n, j.cx, j.ca,
                             Slice(samp, off, n), w, cid)
         IN  IF r.raised
             THEN [raised |-> TRUE, ok |-> acc.ok, st |-> r.st, xs |-> <<>>, as |-> <<>>]
             ELSE RunChunks([raised |-> FALSE, ok |-> acc.ok /\ r.ok, st |-> r.st,
                             xs |-> acc.xs \o r.xs, as |-> acc.as \o r.as],
                            jobs, k + 1, off + n, edges, msk, samp, w, cid)

\* sample(num_samples, cond_x, cond_a, chunk_size); hx and ha say whether
\* cond_x and cond_a were given (they are the caller's x and a)
SampleJobs(lenx, lena, num_samples, hx, ha, chunk_size) ==
    IF hx /\ ha
    THEN IF lenx > chunk_size
         THEN LET cxs == TorchChunk(lenx, chunk_size)
                  cas == TorchChunk(lena, chunk_size)
              IN  [i \in 1..Min(Len(cxs), Len(cas)) |->
                      [n |-> 1, cx |-> cxs[i], ca |-> cas[i]]]
         ELSE << [n |-> 1, cx |-> Rows(1, lenx), ca |-> Rows(1, lena)] >>
    ELSE IF num_samples > chunk_size
         THEN LET sizes == SizeChunks(num_samples, chunk_size)
              IN  [i \in 1..Len(sizes) |-> [n |-> sizes[i], cx |-> None, ca |-> None]]
         ELSE << [n |-> num_samples, cx |-> None, ca |-> None] >>

SamplePublic(st, edges, msk, num_samples, hx, ha, chunk_size, samp, w, cid) ==
    IF hx /\ ha /\ ~LengthsAgree(Len(st.x), Len(edges))
    THEN [raised |-> TRUE, ok |-> TRUE, st |-> st, xs |-> <<>>, as |-> <<>>]
    ELSE RunChunks([raised |-> FALSE, ok |-> TRUE, st |-> st, xs |-> <<>>, as |-> <<>>],
                   SampleJobs(Len(st.x), Len(edges), num_samples, hx, ha, chunk_size),
                   1, 0, edges, msk, samp, w, cid)

\* --------------------------------------------------- MolSPNZeroSort.sample
Regimes == {"cat", "bin", "deq"}

\* nk_edges of the plain model: the edge labels are 0..MaxLabel
NkEdges == MaxLabel + 1

OneHot(c, k) == [d \in Idx(k) |-> IF d = c THEN 1 ELSE 0]
ZeroVec(k) == [d \in Idx(k) |-> 0]

\* models.utils.ohe2cat on one position: the arg-max of the vector, the lowest
\* index winning a tie
ArgMax(v) ==
    CHOOSE d \in DOMAIN v :
        /\ \A e \in DOMAIN v : v[e] <= v[d]
        /\ \A e \in DOMAIN v : v[e] = v[d] => d <= e

\* lines 159-168 for one example; l is the edge engine's sample as categories
\* (in the deq regime the engine returns the one-hot vector of each category)
ZeroSortEdges(rg, l, msk) ==
    IF rg \in {"cat", "bin"}
    THEN Unflatten(l, MaskPos(msk, ND), NkEdges - 1, ND)
    ELSE LET vecs == [k \in DOMAIN l |-> OneHot(l[k], NkEdges)]
             full == MaskPut(Full(ND, ZeroVec(NkEdges)), MaskPos(msk, ND), ND, vecs)
         IN  [i \in Idx(ND) |-> [j \in Idx(ND) |-> ArgMax(full[i][j])]]

\* -------------------------------------------------------------- the inputs
\* node rows in the caller's encoding: 0 is padding / unknown, 1..MaxLabel a label
PrefixRow(k) == [j \in Idx(ND) |-> IF j < k THEN 1 + (j % MaxLabel) ELSE 0]
SparseRow(p) == [j \in Idx(ND) |-> IF j = p THEN MaxLabel ELSE 0]

\* edge matrices in the caller's encoding: -1 is unknown, 0 no bond, 1.. a bond
Unknown == [i \in Idx(ND) |-> [j \in Idx(ND) |-> IF i = j THEN 0 ELSE -1]]
OneBond(p, q, v) ==
    [i \in Idx(ND) |-> [j \in Idx(ND) |->
        IF {i, j} = {p, q} THEN v ELSE IF i = j THEN 0 ELSE -1]]

\* the caller's node tensor: one row with the first k nodes present, one row
\* with only the last node present, or a staircase of growing prefixes
NodeBatches ==
    {<<PrefixRow(k)>> : k \in 0..ND}
    \cup {<<SparseRow(ND - 1)>>}
    \cup {[r \in 1..len |-> PrefixRow(r % (ND + 1))] : len \in 2..MaxBatch}

\* the caller's edge tensor: nothing known, a bond between the last two nodes,
\* or a batch alternating a bond between the first two nodes and nothing known
EdgeBatches ==
    {<<Unknown>>, <<OneBond(ND - 1, ND - 2, MaxLabel)>>}
    \cup {[r \in 1..len |-> IF r % 2 = 1 THEN OneBond(1, 0, 1) ELSE Unknown] :
            len \in 2..MaxBatch}

\* ------------------------------------------------------------- the program
Idle == [kind |-> "none"]

InitModel ==
    /\ codec = CodecIdle
    /\ x \in NodeBatches
    /\ a \in EdgeBatches
    /\ logits_n = [j \in Idx(ND) |-> "init"]
    /\ logits_w = "init"
    /\ m = Tril(ND)
    /\ network_x = NoMask
    /\ network_a = NoMask
    /\ ncalls = 0
    /\ ret = Idle
    /\ trace = <<>>

Init == InitModel /\ regime = "cat"

State == [x |-> x, logits_n |-> logits_n, network_x |-> network_x,
          network_a |-> network_a, trace |-> <<>>]

Commit(st) ==
    /\ x' = st.x
    /\ logits_n' = st.logits_n
    /\ network_x' = st.network_x
    /\ network_a' = st.network_a
    /\ trace' = st.trace
    /\ ncalls' = ncalls + 1
    /\ UNCHANGED <<codec, a, logits_w, m, regime>>

CanCall == ret = Idle /\ ncalls < MaxCalls

\* model.logpdf(x, a) on the caller's batch
Logpdf ==
    /\ CanCall
    /\ Len(x) = Len(a)
    /\ \E r \in {Forward(State, a, m, ncalls + 1)} :
          /\ Commit(r.st)
          /\ ret' = [kind |-> IF r.raised THEN "raised" ELSE "ok", op |-> "logpdf",
                     call |-> ncalls + 1, x |-> x, a |-> a,
                     mask_xn |-> r.mask_xn, mask_an |-> r.mask_an, n |-> r.n]

SampleRet(op, r, ns, hx, ha, cs, samp) ==
    [kind |-> IF r.raised THEN "raised" ELSE "ok", op |-> op, call |-> ncalls + 1,
     num_samples |-> ns, hx |-> hx, ha |-> ha, chunk_size |-> cs,
     cond_x |-> IF hx THEN x ELSE <<>>, cond_a |-> IF ha THEN a ELSE <<>>,
     samp_n |-> IF r.raised THEN <<>> ELSE samp,
     x |-> r.xs, a |-> r.as]

\* model._sample(num_samples, cond_x, cond_a) with cond_x the caller's x when hx
\* and cond_a the caller's a when ha; with evidence of one kind only the caller
\* passes num_samples = the evidence's length
SampleDirectWith(hx, ha) ==
    /\ CanCall
    /\ \E ns \in 1..MaxBatch, w \in 0..MaxLabel :
          /\ hx /\ ha => ns = 1
          /\ hx /\ ~ha => ns = Len(x)
          /\ ha /\ ~hx => ns = Len(a)
          /\ \E samp \in [1..(IF hx THEN Len(x) ELSE ns) -> Idx(ND)] :
             \E r \in {SampleCore(State, a, m, ns,
                                  IF hx THEN Rows(1, Len(x)) ELSE None,
                                  IF ha THEN Rows(1, Len(a)) ELSE None,
                                  samp, w, ncalls + 1)} :
                /\ r.ok
                /\ Commit(r.st)
                /\ ret' = SampleRet("_sample", r, ns, hx, ha, 0, samp)

\* model.sample(num_samples, cond_x, cond_a, chunk_size); a caller that gives
\* evidence leaves num_samples at its default of 1
SampleCallWith(hx, ha) ==
    /\ CanCall
    /\ \E ns \in 1..MaxBatch, cs \in 1..MaxBatch, w \in 0..MaxLabel :
          /\ hx \/ ha => ns = 1
          /\ \E samp \in [1..(IF hx /\ ha THEN Len(x) ELSE ns) -> Idx(ND)] :
             \E r \in {SamplePublic(State, a, m, ns, hx, ha, cs, samp, w, ncalls + 1)} :
                /\ r.ok
                /\ Commit(r.st)
                /\ ret' = SampleRet("sample", r, ns, hx, ha, cs, samp)

SampleDirect == \E hx \in BOOLEAN, ha \in BOOLEAN : SampleDirectWith(hx, ha)

SampleCall == \E hx \in BOOLEAN, ha \in BOOLEAN : SampleCallWith(hx, ha)

\* the caller takes the result; the next call may start
Return ==
    /\ ret # Idle
    /\ ret' = Idle
    /\ trace' = <<>>
    /\ UNCHANGED <<codec, x, a, logits_n, logits_w, m, network_x, network_a, regime, ncalls>>

\* MolSPNZeroSort.sample(num_samples): xv and l are what the two engines draw
ZeroSortSample ==
    /\ CanCall
    /\ \E ns \in 1..MaxBatch, xv \in Idx(MaxLabel + 1) :
       \E l \in [1..Len(MaskPos(m, ND)) -> Idx(NkEdges)] :
          /\ ret' = [kind |-> "ok", op |-> "zero_sample", call |-> ncalls + 1,
                     num_samples |-> ns,
                     x |-> [r \in 1..ns |-> [j \in Idx(ND) |-> xv]],
                     a |-> [r \in 1..ns |-> ZeroSortEdges(regime, l, m)]]
          /\ trace' = <<>>
          /\ ncalls' = ncalls + 1
          /\ UNCHANGED <<codec, x, a, logits_n, logits_w, m, network_x, network_a, regime>>

Next == Logpdf \/ SampleDirect \/ SampleCall \/ Return

Spec == Init /\ [][Next]_vars

\* both model classes, under every regime
InitShape == InitModel /\ regime \in Regimes

NextShape == ZeroSortSample \/ SampleCall \/ Return

SpecShape == InitShape /\ [][NextShape]_vars

\* the calls that give both kinds of evidence
SampleDirectBoth == SampleDirectWith(TRUE, TRUE)

SampleCallBoth == SampleCallWith(TRUE, TRUE)

NextEvidence == SampleDirectBoth \/ SampleCallBoth \/ Return

SpecEvidence == Init /\ [][NextEvidence]_vars

\* ================================================================ the claims
IsEntry(e) == e.op = "_sample"
IsEngine(e) == e.op \in {"score", "sample"}
IsDraw(e) == e.op = "draw_n"
Entries == SelectSeq(trace, IsEntry)
Returned == ret # Idle

C2_SampleShape ==
    (Returned /\ ret.op \in {"zero_sample", "sample"}) =>
        /\ ret.kind = "ok" =>
              /\ Len(ret.x) = Len(ret.a)
              /\ \A r \in DOMAIN ret.x : DOMAIN ret.x[r] = Idx(ND)
              /\ \A r \in DOMAIN ret.a :
                    /\ DOMAIN ret.a[r] = Idx(ND)
                    /\ \A i \in Idx(ND) : DOMAIN ret.a[r][i] = Idx(ND)
                    /\ Symmetric(ret.a[r], ND)
                    /\ \A i \in Idx(ND) : ret.a[r][i][i] = 0

\* the highest position the node evidence of example r marks present, or -1
HighestPresent(row) ==
    IF \E j \in DOMAIN row : row[j] > 0
    THEN CHOOSE j \in DOMAIN row : row[j] > 0 /\ \A k \in DOMAIN row : row[k] > 0 => k <= j
    ELSE -1

\* C3: in every example _sample returns, each node position beyond the resolved
\* size (the drawn size, or the evidenced one where that is larger) holds the
\* padding label 0, and no bond touches a node that holds the padding label.
C3_SizePriorConsistency ==
    (Returned /\ ret.op = "_sample" /\ ret.kind = "ok") =>
        \A r \in DOMAIN ret.x :
            LET hi   == IF ret.hx THEN HighestPresent(ret.cond_x[r]) ELSE -1
                size == IF hi > ret.samp_n[r] THEN hi + 1 ELSE ret.samp_n[r] + 1
            IN  /\ \A j \in Idx(ND) : j >= size => ret.x[r][j] = 0
                /\ \A i \in Idx(ND) : \A j \in Idx(ND) :
                      (i # j /\ (ret.x[r][i] = 0 \/ ret.x[r][j] = 0)) => ret.a[r][i][j] = 0

\* C4: in each of the four call shapes of sample the evidence given reaches
\* _sample, as many examples come back as the evidence has (num_samples without
\* evidence), and every observed evidence position is in the result unchanged.
C4_MixedEvidence ==
    (Returned /\ ret.op = "sample" /\ ret.kind = "ok") =>
        /\ \A k \in DOMAIN Entries :
              Entries[k].cond_x = ret.hx /\ Entries[k].cond_a = ret.ha
        /\ Len(ret.x) = (IF ret.hx THEN Len(ret.cond_x)
                         ELSE IF ret.ha THEN Len(ret.cond_a) ELSE ret.num_samples)
        /\ ret.hx => \A r \in DOMAIN ret.cond_x : \A j \in Idx(ND) :
              ret.cond_x[r][j] > 0 => (r \in DOMAIN ret.x /\ ret.x[r][j] = ret.cond_x[r][j])
        /\ ret.ha => \A r \in DOMAIN ret.cond_a : \A i \in Idx(ND) : \A j \in Idx(ND) :
              (i # j /\ ret.cond_a[r][i][j] > -1) =>
                  (r \in DOMAIN ret.a /\ ret.a[r][i][j] = ret.cond_a[r][i][j])

RECURSIVE SumSizes(_, _)
SumSizes(es, k) == IF k > Len(es) THEN 0 ELSE es[k].n + SumSizes(es, k + 1)

\* C5: a request of L examples with L > chunk_size is handed to _sample in
\* chunks of exactly chunk_size examples, but a last one of L mod chunk_size
\* (chunk_size when that is 0); no chunk is larger than chunk_size and L
\* examples come back.
C5_ChunkPartition ==
    (Returned /\ ret.op = "sample" /\ ret.kind = "ok") =>
        LET L    == IF ret.hx /\ ret.ha THEN Len(ret.cond_x) ELSE ret.num_samples
            cs   == ret.chunk_size
            last == IF L % cs = 0 THEN cs ELSE L % cs
        IN  L > cs =>
              /\ \A k \in DOMAIN Entries :
                    Entries[k].n = (IF k = Len(Entries) THEN last ELSE cs)
              /\ \A k \in DOMAIN Entries : Entries[k].n <= cs
              /\ SumSizes(Entries, 1) = L
              /\ Len(ret.x) = L /\ Len(ret.a) = L

\* C6: a sample or _sample call with both cond_x and cond_a of different
\* lengths ends in a raised error, before any chunk is processed and before
\* any engine invocation, and returns nothing.
C6_MismatchIsFatal ==
    (Returned /\ ret.op \in {"sample", "_sample"}) =>
        ((ret.hx /\ ret.ha /\ Len(ret.cond_x) # Len(ret.cond_a)) =>
            /\ ret.kind = "raised"
            /\ trace = <<>>
            /\ ret.x = <<>> /\ ret.a = <<>>)

\* a public sample call, chunk size below both lengths, that raised on the lengths
C6_Witness ==
    /\ Returned /\ ret.op = "sample"
    /\ ret.hx /\ ret.ha
    /\ Len(ret.cond_x) # Len(ret.cond_a)
    /\ Len(ret.cond_x) > ret.chunk_size
    /\ ret.kind = "raised"

\* C7: logpdf and sample calls leave the mask m, the mixture logits logits_w
\* and the node-count logits logits_n at the values they had at construction.
C7_ParametersReadOnly ==
    /\ m = Tril(ND)
    /\ logits_w = "init"
    /\ logits_n = [j \in Idx(ND) |-> "init"]

\* C8: under node evidence, the node counts the masked node-count distribution
\* permits are exactly those consistent with the evidence: s present nodes are
\* permitted iff s >= highest evidence-present position + 1; at least one count
\* is always permitted.
C8_SizeResolution ==
    (Returned /\ ret.op = "_sample" /\ ret.hx) =>
        \A k \in DOMAIN trace : IsDraw(trace[k]) =>
            /\ trace[k].support # {}
            /\ \A r \in DOMAIN ret.cond_x : \A s \in 1..ND :
                  (s - 1 \in trace[k].support) <=> (s >= HighestPresent(ret.cond_x[r]) + 1)

\* C9: no engine invocation (score or sample, node or edge engine) runs under a
\* marginalization mask that an earlier call set.
C9_NoStaleMask ==
    Returned =>
        \A k \in DOMAIN trace : IsEngine(trace[k]) => trace[k].by \in {0, ret.call}

\* C10: after logpdf(x, a) or sample(cond_x, cond_a) returns, the tensors the
\* caller passed hold the values they had before the call.
C10_InputsUnchanged ==
    (Returned /\ ret.kind = "ok") =>
        /\ ret.op = "logpdf" => (x = ret.x /\ a = ret.a)
        /\ ret.op \in {"sample", "_sample"} =>
              /\ ret.hx => x = ret.cond_x
              /\ ret.ha => a = ret.cond_a

====
